---- MODULE Spec2Model ----
(***************************************************************************)
(* A model of the package dependency gatherer                              *)
(* (sdk/cts/build/scripts/gather_package_deps.py) and of the platform      *)
(* version updater (scripts/versioning/update_platform_version.py).        *)
(*                                                                         *)
(* Path strings are sequences of one-character strings, so that prefix     *)
(* tests, pattern matching, joining and splitting are computed character   *)
(* by character as the code computes them.                                 *)
(*                                                                         *)
(* Three specifications share the variables:                               *)
(*   NormSpec  the path_stripper pattern applied to every short string;    *)
(*   Spec      one run of gather_package_deps.main();                      *)
(*   VerSpec   one run of update_platform_version.main().                  *)
(***************************************************************************)
EXTENDS Integers, Sequences, FiniteSets, TLC

VARIABLES
    \* ---- NormSpec: the pattern on its own
    n_pc,            \* "start" | "matched" | "rematched"
    n_path,          \* the string handed to path_stripper.match
    n_m,             \* the match object of the first application
    n_mm,            \* the match object of path_stripper.match(m.group(1))
    \* ---- Spec: gather_package_deps
    pc,              \* position of main()/run()
    args,            \* what argparse and os.path.exists yield for the four arguments
    data,            \* what json.load(f) yields for the manifest file
    manifest_dict,   \* the dict of run(): a sequence of <<key, value>> in insertion order
    deps,            \* the string recorded by run() before the copies
    idx,             \* position of copy_to_output_dir's loop in manifest_dict
    fs,              \* regular files below output_dir: relative path |-> content
    fs0,             \* the files below output_dir when main() started
    dirs,            \* directories created below output_dir by os.makedirs
    outside,         \* files written outside output_dir: path |-> content
    tar,             \* members of package.tar
    depfile_text,    \* the text written to the depfile
    failure,         \* the operation that raised ("" while nothing has)
    stages,          \* the stages completed so far, in order
    exit_code,       \* what main() returned (-1 while running)
    \* ---- VerSpec: update_platform_version
    v_pc, v_args, v_history, v_platform, v_goldens, v_copied, v_ok, v_ret, v_exit

n_vars == <<n_pc, n_path, n_m, n_mm>>
g_vars == <<pc, args, data, manifest_dict, deps, idx, fs, fs0, dirs, outside, tar,
            depfile_text, failure, stages, exit_code>>
v_vars == <<v_pc, v_args, v_history, v_platform, v_goldens, v_copied, v_ok, v_ret, v_exit>>
vars == <<n_vars, g_vars, v_vars>>

(***************************************************************************)
(* Bounds of the model.                                                    *)
(***************************************************************************)
\* longest string handed to the pattern in NormSpec
MaxLen == 6
\* most blob entries in a manifest
MaxBlobs == 2

(***************************************************************************)
(* Strings.                                                                *)
(***************************************************************************)
StartsWith(s, prefix) ==
    /\ Len(s) >= Len(prefix)
    /\ SubSeq(s, 1, Len(prefix)) = prefix

\* str.join
RECURSIVE Join(_, _)
Join(sep, strs) ==
    IF strs = <<>> THEN <<>>
    ELSE IF Len(strs) = 1 THEN strs[1]
    ELSE strs[1] \o sep \o Join(sep, Tail(strs))

\* str.split(sep) for a one-character separator: the pieces between the
\* occurrences of sep, in order
Split(s, sep) ==
    LET at == {i \in 1..Len(s) : s[i] = sep}
        nth(k) == IF k = 0 THEN 0
                  ELSE IF k > Cardinality(at) THEN Len(s) + 1
                  ELSE CHOOSE i \in at : Cardinality({j \in at : j < i}) = k - 1
    IN  [k \in 1..(Cardinality(at) + 1) |-> SubSeq(s, nth(k - 1) + 1, nth(k) - 1)]

Repeat(c, n) == [i \in 1..n |-> c]

(***************************************************************************)
(* path_stripper = re.compile(r'(?:(?:\.\.\/)+)?\/?(.+)'), used with       *)
(* match(): anchored at the start, not at the end.  The matcher tries the  *)
(* greedy alternatives first and backtracks: most repetitions of '../'     *)
(* first, for each the optional '/' taken before not taken; '.+' needs     *)
(* one character other than a line break and takes the longest run.        *)
(***************************************************************************)
NoMatch == [matched |-> FALSE, group1 |-> <<>>]

\* '.' without re.DOTALL
IsDotChar(c) == c # "\n"

CanDot(p, pos) == pos <= Len(p) /\ IsDotChar(p[pos])

\* last index of the longest run of '.'-characters that starts at i
DotRunEnd(p, i) ==
    LET stops == {j \in i..Len(p) : ~IsDotChar(p[j])} IN
    IF stops = {} THEN Len(p)
    ELSE (CHOOSE j \in stops : \A k \in stops : j <= k) - 1

\* the greatest number of leading repetitions of '../', counted from k
RECURSIVE CountParents(_, _)
CountParents(p, k) ==
    IF 3 * k + 3 <= Len(p) /\ SubSeq(p, 3 * k + 1, 3 * k + 3) = <<".", ".", "/">>
    THEN CountParents(p, k + 1)
    ELSE k

\* the first alternative that matches, with k repetitions of '../' or fewer
RECURSIVE TryMatch(_, _)
TryMatch(p, k) ==
    LET pos == 3 * k + 1 IN
    IF pos <= Len(p) /\ p[pos] = "/" /\ CanDot(p, pos + 1)
    THEN [matched |-> TRUE, group1 |-> SubSeq(p, pos + 1, DotRunEnd(p, pos + 1))]
    ELSE IF CanDot(p, pos)
    THEN [matched |-> TRUE, group1 |-> SubSeq(p, pos, DotRunEnd(p, pos))]
    ELSE IF k > 0 THEN TryMatch(p, k - 1)
    ELSE NoMatch

path_stripper(p) == TryMatch(p, CountParents(p, 0))


(***************************************************************************)
(* NormSpec: path_stripper.match on every string of at most MaxLen         *)
(* characters, then on its own result.  The line break is the one          *)
(* character the pattern's '.' treats apart.                               *)
(***************************************************************************)
Alphabet == {".", "/", "a", "\n"}

PathStrings == UNION {[1..n -> Alphabet] : n \in 0..MaxLen}

\* m = self.path_stripper.match(source_path)
Match ==
    /\ n_pc = "start"
    /\ n_m' = path_stripper(n_path)
    /\ n_pc' = "matched"
    /\ UNCHANGED <<n_path, n_mm, g_vars, v_vars>>

\* the pattern applied to m.group(1), a canonical path
Rematch ==
    /\ n_pc = "matched"
    /\ n_m.matched
    /\ n_mm' = path_stripper(n_m.group1)
    /\ n_pc' = "rematched"
    /\ UNCHANGED <<n_path, n_m, g_vars, v_vars>>

(***************************************************************************)
(* Names and inputs of gather_package_deps.                                *)
(***************************************************************************)
META_PREFIX == <<"m", "e", "t", "a", "/">>
META_FAR == <<"m", "e", "t", "a", ".", "f", "a", "r">>
PACKAGE_MANIFEST == <<"p", "a", "c", "k", "a", "g", "e", ".", "m", "a", "n", "i", "f", "e", "s", "t">>
PACKAGE_TAR == <<"p", "a", "c", "k", "a", "g", "e", ".", "t", "a", "r">>
META_PACKAGE_LINE == <<"m", "e", "t", "a", "/", "p", "a", "c", "k", "a", "g", "e", "=", "m", "e", "t", "a", ".", "f", "a", "r">> \o <<"\n">>
\* tarfile.LENGTH_NAME, the size of the name field of a tar header
LENGTH_NAME == 100

\* the --output_dir and --depfile arguments ("" is the empty argument)
OutputDirs == {<<>>, <<"o", "u", "t">>}
Depfiles == {<<>>, <<"p", "k", "g", ".", "d">>}

\* virtual paths ('path' of a blob): one under meta/, two others
VirtualPaths == {<<"m", "e", "t", "a", "/", "c">>, <<"x">>, <<"y">>}

\* source paths: with leading '../', absolute, clean, absolute with '../'
\* after the root, with a space in a name, empty, and one whose canonical
\* path has 101 characters
P_REL == <<".", ".", "/", ".", ".", "/", "b", "/", "c">>
P_ABS == <<"/", "b">>
P_CLEAN == <<"b", "/", "c">>
P_ROOT_PARENT == <<"/", ".", ".", "/", "a">>
P_SPACE == <<"e", " ", "f">>
P_EMPTY == <<>>
P_LONG == <<".", ".", "/", "d", "/">> \o Repeat("a", LENGTH_NAME - 1)
SourcePaths == {P_REL, P_ABS, P_CLEAN, P_ROOT_PARENT, P_SPACE, P_EMPTY, P_LONG}

\* a blob entry of the manifest: the keys it has, and their values
BlobEntries ==
    [keys : {{"path", "source_path"}}, path : VirtualPaths, source_path : SourcePaths]
    \cup [keys : {{"path"}}, path : VirtualPaths, source_path : {<<>>}]
    \cup [keys : {{"source_path"}}, path : {<<>>}, source_path : {P_CLEAN}]

BlobLists == UNION {[1..n -> BlobEntries] : n \in 0..MaxBlobs}

\* what the manifest file holds: no JSON, JSON without 'blobs', or a blob list
ManifestData ==
    [kind : {"unparseable", "no_blobs"}, blobs : {<<>>}]
    \cup [kind : {"ok"}, blobs : BlobLists]

Unread == [kind |-> "unread", blobs |-> <<>>]

\* contents of files
BlobContent(source_path) == [kind |-> "blob", of |-> source_path]
MetaFarContent == [kind |-> "meta.far", of |-> <<>>]
TextContent(text) == [kind |-> "text", of |-> text]
TarContent == [kind |-> "tar", of |-> <<>>]
StaleContent == [kind |-> "stale", of |-> <<>>]

EmptyDir == [p \in {} |-> StaleContent]

\* output_dir before the run: empty, or what an earlier run and build left
StaleDir == [p \in {PACKAGE_TAR, <<"o", "l", "d">>} |-> StaleContent]

WriteFile(f, path, content) ==
    [p \in DOMAIN f \cup {path} |-> IF p = path THEN content ELSE f[p]]


(***************************************************************************)
(* The dict of run(): insertion-ordered, one value per key.                *)
(***************************************************************************)
Values(d) == [i \in 1..Len(d) |-> d[i][2]]

\* d.setdefault(k, v): a known key keeps its value
DictSetDefault(d, k, v) ==
    IF \E i \in 1..Len(d) : d[i][1] = k THEN d ELSE Append(d, <<k, v>>)

\* d[k] = v: a new key goes last, a known key keeps its place
DictSet(d, k, v) ==
    IF \E i \in 1..Len(d) : d[i][1] = k
    THEN [i \in 1..Len(d) |-> IF d[i][1] = k THEN <<k, v>> ELSE d[i]]
    ELSE Append(d, <<k, v>>)

\* the same loop reading file.get('source_path', ''): no KeyError
RECURSIVE ParseBlobsLenient(_, _)
ParseBlobsLenient(blobs, d) ==
    IF blobs = <<>> THEN [ok |-> TRUE, dict |-> d]
    ELSE LET file == Head(blobs) IN
         IF "path" \notin file.keys THEN [ok |-> FALSE, dict |-> d]
         ELSE IF StartsWith(file.path, META_PREFIX) THEN ParseBlobsLenient(Tail(blobs), d)
         ELSE ParseBlobsLenient(Tail(blobs),
                 IF \E i \in 1..Len(d) : d[i][1] = file.path
                 THEN [i \in 1..Len(d) |->
                         IF d[i][1] = file.path THEN <<file.path, file.source_path>> ELSE d[i]]
                 ELSE Append(d, <<file.path, file.source_path>>))

\* the loop of parse_package_json over data['blobs']; a missing key raises
RECURSIVE ParseBlobs(_, _)
ParseBlobs(blobs, d) ==
    IF blobs = <<>> THEN [ok |-> TRUE, dict |-> d]
    ELSE LET file == Head(blobs) IN
         IF "path" \notin file.keys THEN [ok |-> FALSE, dict |-> d]
         ELSE IF StartsWith(file.path, META_PREFIX) THEN ParseBlobs(Tail(blobs), d)
         ELSE IF "source_path" \notin file.keys THEN [ok |-> FALSE, dict |-> d]
         ELSE ParseBlobs(Tail(blobs), DictSet(d, file.path, file.source_path))

\* parse_package_json: json.load, data['blobs'], then the loop
parse_package_json(content) ==
    IF content.kind # "ok" THEN [ok |-> FALSE, dict |-> <<>>]
    ELSE ParseBlobs(content.blobs, <<>>)

\* deps = ' '.join(manifest_dict.values())
RecordDeps(d) == Join(<<" ">>, Values(d))

(***************************************************************************)
(* Paths below output_dir.  os.path.join(output_dir, p) is p itself when p *)
(* is absolute; otherwise the file system walks the segments of p from     *)
(* output_dir: '' and '.' stay, '..' goes up.                              *)
(***************************************************************************)
SEP == <<"/">>

\* the directory reached from `stack` (a sequence of names below output_dir)
\* by the segments segs; escaped once '..' leaves output_dir
RECURSIVE Walk(_, _, _)
Walk(segs, stack, made) ==
    IF segs = <<>> THEN [escaped |-> FALSE, stack |-> stack, made |-> made]
    ELSE LET seg == Head(segs) IN
         IF seg = <<>> \/ seg = <<".">> THEN Walk(Tail(segs), stack, made)
         ELSE IF seg = <<".", ".">>
         THEN IF stack = <<>> THEN [escaped |-> TRUE, stack |-> stack, made |-> made]
              ELSE Walk(Tail(segs), SubSeq(stack, 1, Len(stack) - 1), made)
         ELSE Walk(Tail(segs), Append(stack, seg),
                   made \cup {Join(SEP, Append(stack, seg))})

\* where os.path.join(output_dir, p) lies: the directories on the way
\* (made), and the file's path relative to output_dir
Locate(p) ==
    LET segs == Split(p, "/")
        last == segs[Len(segs)]
        parent == Walk(SubSeq(segs, 1, Len(segs) - 1), <<>>, {})
    IN  IF StartsWith(p, SEP) \/ parent.escaped
        THEN [where |-> "outside", is_dir |-> FALSE, made |-> {}, rel |-> <<>>]
        ELSE [where |-> "inside",
              is_dir |-> last \in {<<>>, <<".">>, <<".", ".">>},
              made |-> parent.made,
              rel |-> Join(SEP, Append(parent.stack, last))]

\* the directories that hold files of f
RECURSIVE Prefixes(_)
Prefixes(segs) ==
    IF Len(segs) <= 1 THEN {}
    ELSE LET up == SubSeq(segs, 1, Len(segs) - 1) IN {Join(SEP, up)} \cup Prefixes(up)

DirsOf(f) == UNION {Prefixes(Split(p, "/")) : p \in DOMAIN f}

\* os.path.relpath(root, output_dir) joined with name, as archive_output does:
\* './name' for a file of output_dir itself, 'dir/name' below it
ArcName(rel) ==
    IF \E i \in 1..Len(rel) : rel[i] = "/" THEN rel ELSE <<".", "/">> \o rel

\* a member whose header alone carries the name: what fits the name field
TruncatingMember(name, content) ==
    [name |-> SubSeq(name, 1, IF Len(name) > LENGTH_NAME THEN LENGTH_NAME ELSE Len(name)),
     content |-> content,
     longname |-> FALSE,
     header_name |-> SubSeq(name, 1, IF Len(name) > LENGTH_NAME THEN LENGTH_NAME ELSE Len(name))]

\* tar.add under tarfile.GNU_FORMAT: a name longer than LENGTH_NAME goes, whole,
\* into a GNUTYPE_LONGNAME header that precedes the member's own header, whose
\* name field keeps the first LENGTH_NAME characters
GnuMember(name, content) ==
    [name |-> name,
     content |-> content,
     longname |-> Len(name) > LENGTH_NAME,
     header_name |-> SubSeq(name, 1, IF Len(name) > LENGTH_NAME THEN LENGTH_NAME ELSE Len(name))]

\* the text write_new_manifest writes
RECURSIVE ManifestLines(_)
ManifestLines(d) ==
    IF d = <<>> THEN <<>>
    ELSE d[1][1] \o <<"=">> \o d[1][2] \o <<"\n">> \o ManifestLines(Tail(d))

ManifestText(d) == ManifestLines(d) \o META_PACKAGE_LINE

\* tar_path = os.path.join(self.output_dir, 'package.tar')
TarPath == args.output_dir \o SEP \o PACKAGE_TAR

\* f'{tar_path}: {deps}\n'
DepfileLine(tar_path, d) == tar_path \o <<":", " ">> \o d \o <<"\n">>


(***************************************************************************)
(* Spec: one run of gather_package_deps.main().                            *)
(***************************************************************************)
Arguments ==
    [package_json_found : BOOLEAN,   \* package_json_path and os.path.exists(...)
     meta_far_found : BOOLEAN,       \* meta_far_path and os.path.exists(...)
     output_dir : OutputDirs,
     depfile : Depfiles]

GInit ==
    /\ pc = "main"
    /\ args \in Arguments
    /\ data = Unread
    /\ manifest_dict = <<>>
    /\ deps = <<>>
    /\ idx = 0
    /\ fs0 \in {EmptyDir, StaleDir}
    /\ fs = fs0
    /\ dirs = {}
    /\ outside = EmptyDir
    /\ tar = {}
    /\ depfile_text = <<>>
    /\ failure = ""
    /\ stages = <<>>
    /\ exit_code = -1

\* an exception leaves run(): control goes to main()'s except clause
Raise(operation) ==
    /\ pc' = "raised"
    /\ failure' = operation

\* GatherPackageDeps.__init__
Construct ==
    /\ pc = "main"
    /\ IF /\ args.package_json_found
          /\ args.meta_far_found
          /\ args.output_dir # <<>>
          /\ args.depfile # <<>>
       THEN pc' = "constructed" /\ UNCHANGED failure
       ELSE Raise("__init__")
    /\ UNCHANGED <<n_vars, v_vars, args, data, manifest_dict, deps, idx, fs, fs0, dirs, outside, tar,
                   depfile_text, stages, exit_code>>

\* run(): manifest_dict = self.parse_package_json(); deps = ' '.join(...)
ParsePackageJson ==
    /\ pc = "constructed"
    /\ \E content \in ManifestData :
        LET parsed == parse_package_json(content) IN
        /\ data' = content
        /\ IF parsed.ok
           THEN /\ manifest_dict' = parsed.dict
                /\ deps' = RecordDeps(parsed.dict)
                /\ stages' = Append(stages, "Load")
                /\ pc' = "parsed"
                /\ UNCHANGED failure
           ELSE /\ Raise("parse_package_json")
                /\ UNCHANGED <<manifest_dict, deps, stages>>
    /\ UNCHANGED <<n_vars, v_vars, args, idx, fs, fs0, dirs, outside, tar, depfile_text, exit_code>>

\* copy_meta_far: shutil.copyfile(meta_far_path, output_dir/meta.far)
CopyMetaFar ==
    /\ pc = "parsed"
    /\ \E ok \in BOOLEAN :
        IF ok /\ META_FAR \notin dirs
        THEN /\ fs' = WriteFile(fs, META_FAR, MetaFarContent)
             /\ idx' = 1
             /\ pc' = "copying"
             /\ UNCHANGED failure
        ELSE /\ Raise("copy_meta_far")
             /\ UNCHANGED <<fs, idx>>
    /\ UNCHANGED <<n_vars, v_vars, args, data, manifest_dict, deps, fs0, dirs, outside, tar,
                   depfile_text, stages, exit_code>>

\* one turn of the loop of copy_to_output_dir
CopyEntry ==
    /\ pc = "copying"
    /\ idx <= Len(manifest_dict)
    /\ LET archive_path == manifest_dict[idx][1]
           source_path == manifest_dict[idx][2]
           m == path_stripper(source_path)
           loc == Locate(m.group1)
           out_path == IF StartsWith(m.group1, SEP) THEN m.group1
                       ELSE args.output_dir \o SEP \o m.group1
       IN
       \E ok \in BOOLEAN :
         IF ~m.matched
         THEN \* m is None: m.group(1) raises AttributeError
              /\ Raise("copy_to_output_dir")
              /\ UNCHANGED <<manifest_dict, idx, fs, dirs, outside>>
         ELSE IF \E d \in loc.made : d \in DOMAIN fs
         THEN \* os.makedirs meets a regular file
              /\ Raise("copy_to_output_dir")
              /\ UNCHANGED <<manifest_dict, idx, fs, dirs, outside>>
         ELSE IF \/ ~ok
                 \/ /\ loc.where = "inside"
                    /\ \/ loc.is_dir
                       \/ loc.rel \in dirs \cup loc.made \cup DirsOf(fs)
         THEN \* shutil.copyfile raises: no source file, or the target is a directory
              /\ Raise("copy_to_output_dir")
              /\ dirs' = dirs \cup loc.made
              /\ UNCHANGED <<manifest_dict, idx, fs, outside>>
         ELSE /\ dirs' = dirs \cup loc.made
              /\ IF loc.where = "inside"
                 THEN /\ fs' = WriteFile(fs, loc.rel, BlobContent(source_path))
                      /\ UNCHANGED outside
                 ELSE /\ outside' = WriteFile(outside, out_path, BlobContent(source_path))
                      /\ UNCHANGED fs
              /\ manifest_dict' = DictSet(manifest_dict, archive_path, m.group1)
              /\ idx' = idx + 1
              /\ UNCHANGED <<pc, failure>>
    /\ UNCHANGED <<n_vars, v_vars, args, data, deps, fs0, tar, depfile_text, stages, exit_code>>

\* write_new_manifest, once the loop of copy_to_output_dir has ended
WriteNewManifest ==
    /\ pc = "copying"
    /\ idx > Len(manifest_dict)
    /\ \E ok \in BOOLEAN :
        IF ok /\ PACKAGE_MANIFEST \notin dirs \cup DirsOf(fs)
        THEN /\ fs' = WriteFile(fs, PACKAGE_MANIFEST, TextContent(ManifestText(manifest_dict)))
             /\ stages' = Append(stages, "Collect")
             /\ pc' = "manifest_written"
             /\ UNCHANGED failure
        ELSE /\ Raise("write_new_manifest")
             /\ UNCHANGED <<fs, stages>>
    /\ UNCHANGED <<n_vars, v_vars, args, data, manifest_dict, deps, idx, fs0, dirs, outside, tar,
                   depfile_text, exit_code>>

\* the walk without the test input_path == tar_path
ArchivableNoSkip(f) == DOMAIN f

\* the files os.walk(output_dir) yields that archive_output does not skip:
\* input_path == tar_path holds of package.tar in output_dir itself
Archivable(f) == DOMAIN f \ {PACKAGE_TAR}

\* tarfile.open(tar_path, 'w') creates package.tar, or empties the one it finds
OpenTar(f) == WriteFile(f, PACKAGE_TAR, TarContent)

\* package.tar and output_dir once the files `done` are added and removed
Archived(f, done) ==
    [members |-> {GnuMember(ArcName(rel), f[rel]) : rel \in done},
     files |-> [rel \in DOMAIN f \ done |-> f[rel]]]

\* archive_output(tar_path)
ArchiveOutput ==
    /\ pc = "manifest_written"
    /\ \/ \* every file the walk yields is added and removed
          /\ PACKAGE_TAR \notin dirs \cup DirsOf(fs)
          /\ LET a == Archived(OpenTar(fs), Archivable(OpenTar(fs))) IN
             /\ tar' = a.members
             /\ fs' = a.files
          /\ stages' = Append(stages, "Archive")
          /\ pc' = "archived"
          /\ UNCHANGED failure
       \/ \* tarfile.open raises
          /\ Raise("archive_output")
          /\ UNCHANGED <<tar, fs, stages>>
       \/ \* tar.add or os.remove raises at some file: before it, none or all
          \* of the others are done
          /\ PACKAGE_TAR \notin dirs \cup DirsOf(fs)
          /\ \E at \in Archivable(OpenTar(fs)) :
               \E done \in {{}, Archivable(OpenTar(fs)) \ {at}} :
                 LET a == Archived(OpenTar(fs), done) IN
                 /\ tar' = a.members
                 /\ fs' = a.files
          /\ Raise("archive_output")
          /\ UNCHANGED stages
    /\ UNCHANGED <<n_vars, v_vars, args, data, manifest_dict, deps, idx, fs0, dirs, outside,
                   depfile_text, exit_code>>

\* the depfile written as soon as deps is known, before the copies
WriteDepfileEarly ==
    /\ pc = "parsed"
    /\ depfile_text = <<>>
    /\ depfile_text' = DepfileLine(TarPath, deps)
    /\ UNCHANGED <<n_vars, v_vars, pc, args, data, manifest_dict, deps, idx, fs, fs0, dirs,
                   outside, tar, failure, stages, exit_code>>

\* run(): with open(self.depfile, 'w') as f: f.write(...)
WriteDepfile ==
    /\ pc = "archived"
    /\ \E ok \in BOOLEAN :
        IF ok
        THEN /\ depfile_text' = DepfileLine(TarPath, deps)
             /\ stages' = Append(stages, "WriteDepfile")
             /\ pc' = "ran"
             /\ UNCHANGED failure
        ELSE /\ Raise("write_depfile")
             /\ UNCHANGED <<depfile_text, stages>>
    /\ UNCHANGED <<n_vars, v_vars, args, data, manifest_dict, deps, idx, fs, fs0, dirs, outside, tar,
                   exit_code>>

\* main(): except Exception as e: ... return 1
ExceptReturn ==
    /\ pc = "raised"
    /\ exit_code' = 1
    /\ pc' = "exit"
    /\ UNCHANGED <<n_vars, v_vars, args, data, manifest_dict, deps, idx, fs, fs0, dirs, outside, tar,
                   depfile_text, failure, stages>>

\* main(): return 0
Return ==
    /\ pc = "ran"
    /\ exit_code' = 0
    /\ pc' = "exit"
    /\ UNCHANGED <<n_vars, v_vars, args, data, manifest_dict, deps, idx, fs, fs0, dirs, outside, tar,
                   depfile_text, failure, stages>>

Next ==
    \/ Construct
    \/ ParsePackageJson
    \/ CopyMetaFar
    \/ CopyEntry
    \/ WriteNewManifest
    \/ ArchiveOutput
    \/ WriteDepfile
    \/ ExceptReturn
    \/ Return

(***************************************************************************)
(* VerSpec: one run of update_platform_version.main().                     *)
(***************************************************************************)
\* greatest --fuchsia-api-level
MaxLevel == 2
\* most entries of 'versions' in version_history.json before the run
MaxVersions == 2
\* most entries of compatibility_testing_goldens.json
MaxGoldens == 2

\* str() of a natural number
DIGITS == <<"0", "1", "2", "3", "4", "5", "6", "7", "8", "9">>
RECURSIVE Str(_)
Str(n) == IF n < 10 THEN <<DIGITS[n + 1]>> ELSE Str(n \div 10) \o <<DIGITS[(n % 10) + 1]>>

\* the values generate_random_abi_revision can return; one more than the file
\* can hold, so that the loop of update_version_history finds an unused one
AbiRevisions == 1..(MaxVersions + 1)

VersionEntries == [api_level : {Str(n) : n \in 1..MaxLevel}, abi_revision : AbiRevisions]

\* version_history.json: absent, or its data.versions
VersionHistories ==
    [found : {FALSE}, versions : {<<>>}]
    \cup [found : {TRUE}, versions : UNION {[1..n -> VersionEntries] : n \in 0..MaxVersions}]

\* platform_version.json: absent, or its two fields
PlatformVersions ==
    [found : {FALSE}, current_fuchsia_api_level : {0}, supported_fuchsia_api_levels : {<<>>}]
    \cup [found : {TRUE}, current_fuchsia_api_level : {1},
          supported_fuchsia_api_levels : {<<1>>}]

\* --update-goldens as typed: absent, or the string that follows it
ABSENT == <<"<", "a", "b", "s", "e", "n", "t", ">">>
UpdateGoldensArgs ==
    {ABSENT, <<>>, <<"T", "r", "u", "e">>, <<"F", "a", "l", "s", "e">>}

\* argparse: type=bool, default=False; bool(s) of a string is s != ''
ParseBool(raw) == IF raw = ABSENT THEN FALSE ELSE raw # <<>>

\* Python's `not x` for an int
Not(x) == x = 0

VInit ==
    /\ v_pc = "main"
    /\ v_args \in [fuchsia_api_level : 1..MaxLevel, update_goldens : UpdateGoldensArgs]
    /\ v_history \in VersionHistories
    /\ v_platform \in PlatformVersions
    /\ v_goldens \in [manifest_found : BOOLEAN, entries : 0..MaxGoldens]
    /\ v_copied = <<>>
    /\ v_ok = <<>>
    /\ v_ret = 0
    /\ v_exit = -1

\* main(): if not update_version_history(args.fuchsia_api_level): return 1
UpdateVersionHistory ==
    /\ v_pc = "main"
    /\ LET level == Str(v_args.fuchsia_api_level)
           versions == v_history.versions
           defined == \E i \in 1..Len(versions) : versions[i].api_level = level
           used == {versions[i].abi_revision : i \in 1..Len(versions)}
       IN
       IF ~v_history.found \/ defined
       THEN /\ v_ok' = Append(v_ok, [step |-> "update_version_history", ok |-> FALSE])
            /\ v_exit' = 1
            /\ v_pc' = "exit"
            /\ UNCHANGED v_history
       ELSE /\ \E abi_revision \in AbiRevisions \ used :
                 v_history' = [v_history EXCEPT !.versions =
                     Append(versions, [api_level |-> level, abi_revision |-> abi_revision])]
            /\ v_ok' = Append(v_ok, [step |-> "update_version_history", ok |-> TRUE])
            /\ v_pc' = "history_updated"
            /\ UNCHANGED v_exit
    /\ UNCHANGED <<n_vars, g_vars, v_args, v_platform, v_goldens, v_copied, v_ret>>

\* main(): if not update_platform_version(args.fuchsia_api_level): return 1
UpdatePlatformVersion ==
    /\ v_pc = "history_updated"
    /\ IF ~v_platform.found
       THEN /\ v_ok' = Append(v_ok, [step |-> "update_platform_version", ok |-> FALSE])
            /\ v_exit' = 1
            /\ v_pc' = "exit"
            /\ UNCHANGED v_platform
       ELSE /\ v_platform' =
                 [v_platform EXCEPT
                    !.current_fuchsia_api_level = v_args.fuchsia_api_level,
                    !.supported_fuchsia_api_levels = @ \o <<v_args.fuchsia_api_level>>]
            /\ v_ok' = Append(v_ok, [step |-> "update_platform_version", ok |-> TRUE])
            /\ v_pc' = "platform_updated"
            /\ UNCHANGED v_exit
    /\ UNCHANGED <<n_vars, g_vars, v_args, v_history, v_goldens, v_copied, v_ret>>

\* main(): args.update_goldens is false: return 0
SkipGoldens ==
    /\ v_pc = "platform_updated"
    /\ ~ParseBool(v_args.update_goldens)
    /\ v_exit' = 0
    /\ v_pc' = "exit"
    /\ UNCHANGED <<n_vars, g_vars, v_args, v_history, v_platform, v_goldens, v_copied,
                   v_ok, v_ret>>

\* update_compatibility_test_goldens: ret = 0; open(goldens_manifest); an
\* absent manifest raises FileNotFoundError, which nothing catches
OpenGoldens ==
    /\ v_pc = "platform_updated"
    /\ ParseBool(v_args.update_goldens)
    /\ v_ret' = 0
    /\ IF v_goldens.manifest_found
       THEN /\ v_pc' = "copying"
            /\ UNCHANGED <<v_ok, v_exit>>
       ELSE /\ v_ok' = Append(v_ok, [step |-> "update_compatibility_test_goldens",
                                     ok |-> FALSE])
            /\ v_exit' = 1
            /\ v_pc' = "exit"
    /\ UNCHANGED <<n_vars, g_vars, v_args, v_history, v_platform, v_goldens, v_copied>>

\* one turn of the loop: shutil.copyfile(src, dst); except Exception: ret = 1
CopyGolden ==
    /\ v_pc = "copying"
    /\ Len(v_copied) < v_goldens.entries
    /\ \E copied \in BOOLEAN :
        /\ v_copied' = Append(v_copied, copied)
        /\ v_ret' = IF copied THEN v_ret ELSE 1
    /\ UNCHANGED <<n_vars, g_vars, v_pc, v_args, v_history, v_platform, v_goldens,
                   v_ok, v_exit>>

\* return ret; main(): if not update_compatibility_test_goldens(...): return 1
\* and, past it, return 0
GoldensReturn ==
    /\ v_pc = "copying"
    /\ Len(v_copied) = v_goldens.entries
    /\ v_ok' = Append(v_ok, [step |-> "update_compatibility_test_goldens",
                             ok |-> \A i \in 1..Len(v_copied) : v_copied[i]])
    /\ v_exit' = IF Not(v_ret) THEN 1 ELSE 0
    /\ v_pc' = "exit"
    /\ UNCHANGED <<n_vars, g_vars, v_args, v_history, v_platform, v_goldens, v_copied,
                   v_ret>>

VQuiet ==
    /\ v_pc = "idle"
    /\ v_args = [fuchsia_api_level |-> 1, update_goldens |-> ABSENT]
    /\ v_history = [found |-> FALSE, versions |-> <<>>]
    /\ v_platform = [found |-> FALSE, current_fuchsia_api_level |-> 0,
                     supported_fuchsia_api_levels |-> <<>>]
    /\ v_goldens = [manifest_found |-> FALSE, entries |-> 0]
    /\ v_copied = <<>>
    /\ v_ok = <<>>
    /\ v_ret = 0
    /\ v_exit = -1

\* the variables of a program that is not run
GQuiet ==
    /\ pc = "idle"
    /\ args = [package_json_found |-> FALSE, meta_far_found |-> FALSE,
               output_dir |-> <<>>, depfile |-> <<>>]
    /\ data = Unread
    /\ manifest_dict = <<>>
    /\ deps = <<>>
    /\ idx = 0
    /\ fs0 = EmptyDir
    /\ fs = EmptyDir
    /\ dirs = {}
    /\ outside = EmptyDir
    /\ tar = {}
    /\ depfile_text = <<>>
    /\ failure = ""
    /\ stages = <<>>
    /\ exit_code = -1

NQuiet ==
    /\ n_pc = "idle"
    /\ n_path = <<>>
    /\ n_m = NoMatch
    /\ n_mm = NoMatch

NInit ==
    /\ n_pc = "start"
    /\ n_path \in PathStrings
    /\ n_m = NoMatch
    /\ n_mm = NoMatch

NormInit == NInit /\ GQuiet /\ VQuiet
NormNext == Match \/ Rematch
NormSpec == NormInit /\ [][NormNext]_vars

Init == GInit /\ NQuiet /\ VQuiet
Spec == Init /\ [][Next]_vars


VerInit == VInit /\ NQuiet /\ GQuiet
VerNext ==
    \/ UpdateVersionHistory
    \/ UpdatePlatformVersion
    \/ SkipGoldens
    \/ OpenGoldens
    \/ CopyGolden
    \/ GoldensReturn
VerSpec == VerInit /\ [][VerNext]_vars


(***************************************************************************)
(* What the claims speak of, computed from the inputs of the run.          *)
(***************************************************************************)
Blobs == data.blobs

\* the entries that are not under the metadata namespace
Retained ==
    {i \in 1..Len(Blobs) :
        "path" \in Blobs[i].keys /\ ~StartsWith(Blobs[i].path, META_PREFIX)}

SamePath(i, j) == Blobs[i].path = Blobs[j].path

\* of the entries that share a virtual path: the first, and the last
FirstOfPath == {i \in Retained : \A j \in Retained : SamePath(i, j) => i <= j}
LastOfPath == {i \in Retained : \A j \in Retained : SamePath(i, j) => j <= i}
LastWith(i) == CHOOSE j \in LastOfPath : SamePath(i, j)

\* a set of numbers as an increasing sequence
Ordered(S) ==
    [k \in 1..Cardinality(S) |-> CHOOSE i \in S : Cardinality({j \in S : j < i}) = k - 1]

RECURSIVE Concat(_)
Concat(strs) == IF strs = <<>> THEN <<>> ELSE Head(strs) \o Concat(Tail(strs))

Normalize(p) == path_stripper(p).group1

ManifestLine(virtual_path, source_path) ==
    virtual_path \o <<"=">> \o Normalize(source_path) \o <<"\n">>

Count(seq, x) == Cardinality({i \in DOMAIN seq : seq[i] = x})
Range(seq) == {seq[i] : i \in DOMAIN seq}

StripDotSlash(name) ==
    IF StartsWith(name, <<".", "/">>) THEN SubSeq(name, 3, Len(name)) ELSE name

Succeeded == pc = "exit" /\ exit_code = 0
Pipeline == <<"Load", "Collect", "Archive", "WriteDepfile">>

(***************************************************************************)
(* C1 (as claimed; the pattern violates it): whenever path_stripper        *)
(* matches, group 1 begins neither with '../' nor with '/', and is not     *)
(* '..'.                                                                   *)
(***************************************************************************)
C1_CanonicalNeverEscapes ==
    (n_pc \in {"matched", "rematched"} /\ n_m.matched) =>
        /\ ~StartsWith(n_m.group1, <<".", ".", "/">>)
        /\ n_m.group1 # <<".", ".">>
        /\ ~StartsWith(n_m.group1, <<"/">>)

(***************************************************************************)
(* C2 (as claimed; the archive violates it): after a successful run the    *)
(* members of package.tar are the canonical paths of the output manifest   *)
(* and meta.far, nothing else, and only package.tar is left in output_dir. *)
(***************************************************************************)
C2_ArchiveIsManifestPlusMetaFar ==
    Succeeded =>
        /\ {StripDotSlash(m.name) : m \in tar} = Range(Values(manifest_dict)) \cup {META_FAR}
        /\ DOMAIN fs = {PACKAGE_TAR}

\* the files the run puts or finds below output_dir, package.tar aside
ExpectedMembers ==
    {Locate(v).rel : v \in {w \in Range(Values(manifest_dict)) : Locate(w).where = "inside"}}
    \cup {META_FAR, PACKAGE_MANIFEST}
    \cup (DOMAIN fs0 \ {PACKAGE_TAR})

(***************************************************************************)
(* C2 (amended): after a successful run the members of package.tar are     *)
(* exactly the files that were below output_dir when archiving began,      *)
(* package.tar aside: package.manifest, meta.far, the copy at every        *)
(* canonical path that lies inside output_dir, and the files the directory *)
(* held before the run; each under its path relative to output_dir, which  *)
(* is './name' for a file of output_dir itself.  package.tar is no member  *)
(* and is the only regular file left in output_dir.                        *)
(***************************************************************************)
C2_ArchiveIsOutputDir ==
    Succeeded =>
        /\ {m.name : m \in tar} = {ArcName(rel) : rel \in ExpectedMembers}
        /\ Cardinality(tar) = Cardinality(ExpectedMembers)
        /\ DOMAIN fs = {PACKAGE_TAR}

C2_Witness ==
    /\ Succeeded
    /\ fs0 = StaleDir
    /\ outside # EmptyDir
    /\ {<<".", "/", "p", "a", "c", "k", "a", "g", "e", ".", "m", "a", "n", "i", "f", "e", "s", "t">>, <<".", "/", "m", "e", "t", "a", ".", "f", "a", "r">>, <<".", "/", "o", "l", "d">>, <<"b", "/", "c">>} \subseteq {m.name : m \in tar}

(***************************************************************************)
(* C3 (as claimed; a source path with a space violates it): after a        *)
(* successful run the depfile is one line, '<output_dir>/package.tar: '    *)
(* followed by paths separated by spaces, and the paths listed are,        *)
(* counted with their repetitions and in any order, the source_path values *)
(* as the manifest gave them, one for each entry the mapping retains.      *)
(***************************************************************************)
DepfilePrefix == args.output_dir \o <<"/", "p", "a", "c", "k", "a", "g", "e", ".", "t", "a", "r", ":", " ">>

DepfileListed ==
    LET line == Split(depfile_text, "\n")[1]
        rest == SubSeq(line, Len(DepfilePrefix) + 1, Len(line))
    IN  IF rest = <<>> THEN <<>> ELSE Split(rest, " ")

C3_DepfileListsOriginalSources ==
    Succeeded =>
        /\ Len(Split(depfile_text, "\n")) = 2
        /\ Split(depfile_text, "\n")[2] = <<>>
        /\ StartsWith(depfile_text, DepfilePrefix)
        /\ \A p \in SourcePaths \cup Range(DepfileListed) :
             Count(DepfileListed, p)
               = Cardinality({i \in LastOfPath : Blobs[i].source_path = p})

(***************************************************************************)
(* C4: the stages complete in the order Load, Collect, Archive,            *)
(* WriteDepfile; the depfile is written only when the three stages before  *)
(* it have completed and nothing has raised; a run in which an operation   *)
(* raised never writes the depfile and exits with a non-zero status.       *)
(***************************************************************************)
C4_DepfileOnlyAfterAllStages ==
    /\ Len(stages) <= Len(Pipeline)
    /\ stages = SubSeq(Pipeline, 1, Len(stages))
    /\ depfile_text # <<>> => (stages = Pipeline /\ failure = "")
    /\ failure # "" => (depfile_text = <<>> /\ (pc = "exit" => exit_code # 0))
    /\ Succeeded => (failure = "" /\ stages = Pipeline)

C4_Witness ==
    /\ pc = "exit"
    /\ failure = "archive_output"
    /\ stages = <<"Load", "Collect">>
    /\ exit_code = 1
    /\ depfile_text = <<>>

(***************************************************************************)
(* C5 (as claimed; a repeated virtual path violates it): package.manifest  *)
(* holds one line 'virtual_path=normalize(source_path)' for each entry not *)
(* under meta/, in input order, then 'meta/package=meta.far'.              *)
(***************************************************************************)
C5_OneLinePerEntry ==
    pc = "manifest_written" =>
        fs[PACKAGE_MANIFEST].of =
            Concat([k \in 1..Cardinality(Retained) |->
                      LET i == Ordered(Retained)[k] IN
                      ManifestLine(Blobs[i].path, Blobs[i].source_path)])
            \o META_PACKAGE_LINE

(***************************************************************************)
(* C5 (amended): package.manifest holds one line for each distinct virtual *)
(* path not under meta/, in the order of the paths' first occurrences,     *)
(* 'virtual_path=normalize(source_path)' with the source_path of the last  *)
(* entry that has this virtual path, then 'meta/package=meta.far'; entries *)
(* that share a virtual path give one line, not one each.                  *)
(***************************************************************************)
C5_OneLinePerVirtualPath ==
    pc = "manifest_written" =>
        fs[PACKAGE_MANIFEST].of =
            Concat([k \in 1..Cardinality(FirstOfPath) |->
                      LET i == Ordered(FirstOfPath)[k] IN
                      ManifestLine(Blobs[i].path, Blobs[LastWith(i)].source_path)])
            \o META_PACKAGE_LINE

C5_Witness ==
    /\ pc = "manifest_written"
    /\ Len(Blobs) = 2
    /\ Retained = {1, 2}
    /\ SamePath(1, 2)
    /\ Blobs[1].source_path = P_CLEAN
    /\ Blobs[2].source_path = P_ABS
    /\ fs[PACKAGE_MANIFEST].of = <<"x", "=", "b">> \o <<"\n">> \o META_PACKAGE_LINE

(***************************************************************************)
(* C6 (as claimed; the code violates it): when two retained entries have   *)
(* distinct source paths with the same canonical path, the collection      *)
(* stage does not complete and the run does not succeed.                   *)
(***************************************************************************)
Collision ==
    \E i, j \in LastOfPath :
        /\ Blobs[i].source_path # Blobs[j].source_path
        /\ path_stripper(Blobs[i].source_path) = path_stripper(Blobs[j].source_path)

C6_CollisionRejected ==
    (data.kind = "ok" /\ Collision) => ("Collect" \notin Range(stages) /\ ~Succeeded)

(***************************************************************************)
(* C7 (as claimed; the code violates it): every name stored in package.tar *)
(* fits the 100 characters of the header's name field, without long-name   *)
(* header, and archive_output does not complete when a canonical path is   *)
(* longer.                                                                 *)
(***************************************************************************)
C7_NamesFitHeader ==
    "Archive" \in Range(stages) =>
        /\ \A m \in tar : Len(m.name) <= LENGTH_NAME /\ ~m.longname
        /\ \A v \in Range(Values(manifest_dict)) : Len(v) <= LENGTH_NAME

(***************************************************************************)
(* C7 (amended): a canonical path of more than 100 characters does not     *)
(* make archive_output fail.  Every canonical path inside output_dir is    *)
(* stored in package.tar under its whole name; a GNU long-name header      *)
(* carries the name exactly when the stored name ('./' included for a file *)
(* of output_dir itself) has more than 100 characters, and the member's    *)
(* own header then keeps the first 100.                                    *)
(***************************************************************************)
C7_LongNamesStoredWhole ==
    "Archive" \in Range(stages) =>
        \A v \in Range(Values(manifest_dict)) :
            Locate(v).where = "inside" =>
                \E m \in tar :
                    /\ m.name = ArcName(Locate(v).rel)
                    /\ m.longname = (Len(m.name) > LENGTH_NAME)
                    /\ Len(m.header_name) <= LENGTH_NAME
                    /\ StartsWith(m.name, m.header_name)

C7_Witness ==
    /\ Succeeded
    /\ \E m \in tar :
        /\ m.name = Normalize(P_LONG)
        /\ Len(m.name) = LENGTH_NAME + 1
        /\ m.longname

(***************************************************************************)
(* C8: when the manifest is missing or is not JSON, has no blob list, or   *)
(* has an entry without virtual path or a retained entry without source    *)
(* path, or the metadata archive is missing, or output_dir or depfile is   *)
(* empty, the run raises in the constructor or in parse_package_json:      *)
(* nothing below output_dir is created or changed (no meta.far, no blob,   *)
(* no directory, no package.manifest, no package.tar), and the exit status *)
(* is 1.                                                                   *)
(***************************************************************************)
MalformedEntry(e) ==
    \/ "path" \notin e.keys
    \/ ~StartsWith(e.path, META_PREFIX) /\ "source_path" \notin e.keys

InvalidInput ==
    \/ ~args.package_json_found
    \/ ~args.meta_far_found
    \/ args.output_dir = <<>>
    \/ args.depfile = <<>>
    \/ data.kind \in {"unparseable", "no_blobs"}
    \/ \E i \in 1..Len(Blobs) : MalformedEntry(Blobs[i])

C8_InvalidInputFailsBeforeCopying ==
    (pc # "idle" /\ InvalidInput) =>
        /\ pc \in {"main", "raised", "exit"}
        /\ pc # "main" => failure \in {"__init__", "parse_package_json"}
        /\ fs = fs0
        /\ dirs = {}
        /\ outside = EmptyDir
        /\ tar = {}
        /\ depfile_text = <<>>
        /\ pc = "exit" => exit_code = 1

C8_Witness ==
    /\ pc = "exit"
    /\ failure = "parse_package_json"
    /\ fs0 = StaleDir
    /\ Len(Blobs) = 2
    /\ Blobs[1].keys = {"path", "source_path"}
    /\ ~StartsWith(Blobs[1].path, META_PREFIX)
    /\ Blobs[2].keys = {"path"}
    /\ MalformedEntry(Blobs[2])

(***************************************************************************)
(* C9 (as claimed; a path with a line break violates it): for every        *)
(* non-empty path p that begins neither with '../' nor with '/',           *)
(* path_stripper matches and group 1 is p itself; applied to that result,  *)
(* the pattern returns it again.                                           *)
(***************************************************************************)
C9_IdempotentOnCanonical ==
    (/\ n_pc \in {"matched", "rematched"}
     /\ n_path # <<>>
     /\ ~StartsWith(n_path, <<".", ".", "/">>)
     /\ ~StartsWith(n_path, <<"/">>)) =>
        /\ n_m.matched
        /\ n_m.group1 = n_path
        /\ n_pc = "rematched" => n_mm = n_m

(***************************************************************************)
(* C10 (as claimed; main() violates it): main() returns 0 exactly when     *)
(* every step it performed succeeded, and 1 otherwise.                     *)
(***************************************************************************)
C10_ZeroIffAllStepsSucceeded ==
    v_pc = "exit" =>
        /\ v_exit \in {0, 1}
        /\ v_exit = 0 <=> \A i \in 1..Len(v_ok) : v_ok[i].ok

====
